---- MODULE Spec2Model ----
(***************************************************************************)
(* Model of the voice turn-taking loop of the ECHO tutoring client:        *)
(* the ChatScreen component (src/screens/ChatScreen.tsx and its variant    *)
(* src/unnamed/part_004), the chat part of the store (src/store.ts) and    *)
(* the tutor client (src/services/geminiService.ts); and of the parts of  *)
(* the client around it that share its store: the login session and the    *)
(* vocabulary of src/store.ts, and the flash cards of                      *)
(* src/screens/VocabularyScreen.tsx and its variant src/unnamed/part_005.  *)
(*                                                                         *)
(* JavaScript runs every handler to completion, so one action is one       *)
(* handler (or the part of an async handler between two awaits) together   *)
(* with the re-render and the effects that React runs after it.            *)
(* Handlers are operators from a state record to a state record, composed  *)
(* in the order of the statements of the source.                           *)
(*                                                                         *)
(* The objects the platform keeps alive (recognition instances, utterances,*)
(* awaited calls) are bags of records: the controller holds on to none of  *)
(* them except through recognitionRef, which is the field cur of the       *)
(* instance it points to.                                                  *)
(***************************************************************************)
EXTENDS Integers, Sequences, FiniteSets, Bags, TLC

VARIABLES
    variant,        \* which ChatScreen source is built: "debounce" | "immediate"
    mounted,        \* the ChatScreen component is mounted
    chatHistory,    \* store.chatHistory: role, text and correction of its turns
    turnIds,        \* store.chatHistory: the id of each of its turns
    now,            \* Date.now()
    inputText,      \* useState inputText
    sessionActive,  \* useState sessionActive
    isProcessing,   \* useState isProcessing
    isListening,    \* useState isListening
    isSpeaking,     \* useState isSpeaking
    rec,            \* the SpeechRecognition instances created by startListening
    utts,           \* the utterances known to window.speechSynthesis
    settleTimers,   \* pending setTimeout(() => startListening(), 500)
    calls,          \* tutor calls awaited by handleStartSession / handleSend
    wakeLockRef,    \* wakeLockRef.current: "null", or the sentinel it holds:
                    \* "held" | "released" (by release()) | "revoked" (by
                    \* the platform)
    wlPending,      \* navigator.wakeLock.request calls not yet settled
    visible,        \* document.visibilityState = 'visible'
    userIdle,       \* the user has stopped touching the screen
    effectHistory,  \* chatHistory in the closure of the pending auto-send timer
    effectTimer,    \* the pending auto-send timer: <<>> when there is none,
                    \* else one element, the dependencies of the effect that
                    \* armed it
    callCap,        \* how many tutor calls in flight the model follows
    turnCap,        \* how many turns of the transcript the model follows
    currentScreen,  \* store.currentScreen
    user,           \* store.user: <<>> for null, else one element, the profile
    vocabulary,     \* store.vocabulary: id, word and status of its entries
    currentIndex    \* useState currentIndex of VocabularyScreen

vars == <<variant, mounted, chatHistory, turnIds, now, inputText, sessionActive, isProcessing,
          isListening, isSpeaking, rec, utts, settleTimers, calls,
          wakeLockRef, wlPending, visible, userIdle, effectHistory,
          effectTimer, callCap, turnCap, currentScreen, user, vocabulary,
          currentIndex>>

----------------------------------------------------------------------------
(* Bounds of the model *)
MaxRec == 2
MaxUtt == 2
MaxCalls == 1
MaxCallsRace == 2
MaxNow == 1
MaxTimers == 1
MaxWl == 1
MaxTurns == 3
MaxTurnsRace == 4
\* the clock units of one day: 1000 * 60 * 60 * 24 ms in the source
Day == 2
\* the days the clock of the login streak runs
MaxDays == 9
\* the entries of the vocabulary the model follows
MaxVocab == 4
\* the words of one generated batch
MaxBatch == 2
\* the words of the vocabulary the flash cards start from
MaxWords == 3

\* what the user can type into the input field
TypedTexts == {" ", "hi"}
\* the typed texts that are not blank
TypedWords == {"hi"}
\* what recognition.onresult can deliver
Transcripts == {"hi"}
\* the error kinds of SpeechRecognitionErrorEvent the model distinguishes
ErrorKinds == {"not-allowed", "no-speech"}

\* String.prototype.trim on the texts of the model
Trim(t) == IF t = " " THEN "" ELSE t

One(e) == SetToBag({e})

----------------------------------------------------------------------------
(* The state as one record, so that handlers compose.  alert: the handler  *)
(* has shown window.alert; overflow: the handler has exceeded a bound.     *)
St ==
    [mounted |-> mounted, chatHistory |-> chatHistory,
     turnIds |-> turnIds, now |-> now,
     inputText |-> inputText, sessionActive |-> sessionActive,
     isProcessing |-> isProcessing, isListening |-> isListening,
     isSpeaking |-> isSpeaking, rec |-> rec, utts |-> utts,
     settleTimers |-> settleTimers, calls |-> calls,
     wakeLockRef |-> wakeLockRef, wlPending |-> wlPending, visible |-> visible,
     userIdle |-> userIdle, effectHistory |-> effectHistory,
     effectTimer |-> effectTimer,
     currentScreen |-> currentScreen,
     alert |-> FALSE, overflow |-> FALSE]

\* a React state setter: a no-op once the component is unmounted
setState(s, f, v) == IF s.mounted THEN [s EXCEPT ![f] = v] ELSE s

\* store.ts
\* a message is a turn with its id
Stamp(id, turn) == [id |-> id] @@ turn

Turn(msg) == [role |-> msg.role, text |-> msg.text, corr |-> msg.corr]

\* an addMessage that puts the new turn in front of the transcript
addMessage_Prepend(s, msg) ==
    IF Len(s.chatHistory) >= turnCap THEN [s EXCEPT !.overflow = TRUE]
    ELSE [s EXCEPT !.chatHistory = <<Turn(msg)>> \o @,
                   !.turnIds = <<msg.id>> \o @]

addMessage(s, msg) ==
    IF Len(s.chatHistory) >= turnCap THEN [s EXCEPT !.overflow = TRUE]
    ELSE [s EXCEPT !.chatHistory = Append(@, Turn(msg)),
                   !.turnIds = Append(@, msg.id)]

clearChat(s) == [s EXCEPT !.chatHistory = <<>>, !.turnIds = <<>>]

setScreen(s, screen) == [s EXCEPT !.currentScreen = screen]

SESSION_DURATION == 7 * Day

\* the last instant of the clock
MaxClock == MaxDays * Day

\* new Date().toISOString().split('T')[0]: a date is the number of its day
getTodayString(t) == t \div Day

\* new Date(dateString).getTime(): midnight of that day
DateGetTime(date) == date * Day

Abs(x) == IF x < 0 THEN 0 - x ELSE x

\* Math.ceil(a / b) for a >= 0, b > 0
CeilDiv(a, b) == (a + b - 1) \div b

login(s) ==
    [s EXCEPT !.user = <<[streak |-> 1, lastLogin |-> s.now,
                          lastLoginDate |-> getTodayString(s.now)]>>,
              !.currentScreen = "dashboard",
              !.chatHistory = <<>>, !.turnIds = <<>>,
              !.vocabulary = <<>>]

logout(s) ==
    [s EXCEPT !.user = <<>>,
              !.currentScreen = "login",
              !.chatHistory = <<>>, !.turnIds = <<>>,
              !.vocabulary = <<>>]

\* the streak after a login on the day today of a user with profile u
NewStreak(u, today) ==
    IF u.lastLoginDate # today
    THEN LET diffTime == Abs(DateGetTime(today) - DateGetTime(u.lastLoginDate))
             diffDays == CeilDiv(diffTime, Day)
         IN  IF diffDays = 1 THEN u.streak + 1
             ELSE IF diffDays > 1 THEN 1
             ELSE u.streak
    ELSE u.streak

\* a checkSession that never starts the streak again
checkSession_KeepStreak(s) ==
    IF s.user = <<>> THEN s
    ELSE LET u == s.user[1]
             today == getTodayString(s.now)
         IN  IF s.now - u.lastLogin > SESSION_DURATION THEN logout(s)
             ELSE [s EXCEPT !.user = <<[streak |-> IF NewStreak(u, today) = 1
                                                    THEN u.streak
                                                    ELSE NewStreak(u, today),
                                        lastLogin |-> s.now,
                                        lastLoginDate |-> today]>>]

checkSession(s) ==
    IF s.user = <<>> THEN s
    ELSE LET u == s.user[1]
             today == getTodayString(s.now)
         IN  IF s.now - u.lastLogin > SESSION_DURATION THEN logout(s)
             ELSE [s EXCEPT !.user = <<[streak |-> NewStreak(u, today),
                                        lastLogin |-> s.now,
                                        lastLoginDate |-> today]>>]

\* an addVocab that adds the batch as it is
addVocab_NoFilter(s, words) ==
    IF Len(s.vocabulary) + Len(words) > MaxVocab THEN [s EXCEPT !.overflow = TRUE]
    ELSE [s EXCEPT !.vocabulary = @ \o words]

addVocab(s, words) ==
    LET Fresh(nw) == ~\E i \in 1..Len(s.vocabulary) : s.vocabulary[i].word = nw.word
        newWords == SelectSeq(words, Fresh)
    IN  IF Len(s.vocabulary) + Len(newWords) > MaxVocab
        THEN [s EXCEPT !.overflow = TRUE]
        ELSE [s EXCEPT !.vocabulary = @ \o newWords]

updateVocabStatus(s, id, status) ==
    LET v == s.vocabulary
    IN  [s EXCEPT !.vocabulary =
            [i \in 1..Len(v) |-> IF v[i].id = id
                                 THEN [v[i] EXCEPT !.status = status]
                                 ELSE v[i]]]

\* src/services/geminiService.ts: the entries made of the items of a reply
generateDailyVocab(s, items) ==
    [i \in 1..Len(items) |->
        [id |-> <<s.now, i - 1>>, word |-> items[i], status |-> "new"]]

\* src/screens/VocabularyScreen.tsx
practiceWords(v) ==
    LET NotMastered(w) == w.status # "mastered"
    IN  SelectSeq(v, NotMastered)

\* currentWord is practiceWords[currentIndex], counted from 0
handleNext(s, status) ==
    LET pw == practiceWords(s.vocabulary)
    IN  IF s.currentIndex >= Len(pw) THEN s
        ELSE LET s1 == updateVocabStatus(s, pw[s.currentIndex + 1].id, status)
             IN  IF s.currentIndex < Len(pw) - 1
                 THEN [s1 EXCEPT !.currentIndex = @ + 1]
                 ELSE [s1 EXCEPT !.currentIndex = 0]

Min(a, b) == IF a < b THEN a ELSE b

\* src/unnamed/part_005: the handleNext that clamps the index
handleNextClamp(s, status) ==
    LET pw == practiceWords(s.vocabulary)
    IN  IF s.currentIndex >= Len(pw) THEN s
        ELSE LET s1 == updateVocabStatus(s, pw[s.currentIndex + 1].id, status)
             IN  IF s.currentIndex >= Len(pw) - 1
                 THEN [s1 EXCEPT !.currentIndex = 0]
                 ELSE IF status = "reviewing"
                 THEN [s1 EXCEPT !.currentIndex = (@ + 1) % Len(pw)]
                 ELSE [s1 EXCEPT !.currentIndex = Min(@, Len(pw) - 2)]

----------------------------------------------------------------------------
(* Speech recognition.  An instance is starting (start() called), started  *)
(* (onstart delivered), errored (onerror delivered, onend to come) or      *)
(* ended.  cur: recognitionRef.current is this instance.  stop: stop() was *)
(* called on it.  History fields: src, inputText is a result of this       *)
(* instance; sent, a result of this instance was committed as a turn.      *)
(***************************************************************************)
\* the bag of the F(e), e in bag b
MapBag(b, F(_)) ==
    LET S == BagToSet(b)
    IN  [t \in {F(e) : e \in S} |->
            BagCardinality([e \in {x \in S : F(x) = t} |-> b[e]])]

Live(r) == r.st # "ended"

\* recognitionRef.current.stop(), when recognitionRef.current is set
RecStop(s) ==
    LET F(r) == IF r.cur /\ Live(r) THEN [r EXCEPT !.stop = TRUE] ELSE r
    IN  [s EXCEPT !.rec = MapBag(@, F)]

startListening(s) ==
    LET s1 == RecStop(s)
        Uncur(r) == [r EXCEPT !.cur = FALSE]
    IN  IF BagCardinality(s1.rec) >= MaxRec THEN [s1 EXCEPT !.overflow = TRUE]
        ELSE [s1 EXCEPT !.rec = MapBag(@, Uncur) (+)
                  One([st |-> "starting", stop |-> FALSE, cur |-> TRUE,
                       src |-> FALSE, sent |-> FALSE])]

stopListening(s) == setState(RecStop(s), "isListening", FALSE)

\* history: inputText no longer comes from a recognition instance
Unsrc(b) ==
    LET F(r) == [r EXCEPT !.src = FALSE]
    IN  MapBag(b, F)

recognition_onstart(s) == setState(s, "isListening", TRUE)

\* r is the instance after the event
recognition_onresult(s, r, t) ==
    IF s.mounted
    THEN [s EXCEPT !.inputText = t,
                   !.rec = (Unsrc(@) (-) One([r EXCEPT !.src = FALSE]))
                           (+) One([r EXCEPT !.src = TRUE])]
    ELSE s

\* an onerror that stops the session on every kind of error
recognition_onerror_AnyKind(s, kind) ==
    setState([setState(s, "sessionActive", FALSE) EXCEPT !.alert = TRUE],
             "isListening", FALSE)

recognition_onerror(s, kind) ==
    LET s1 == IF kind = "not-allowed"
              THEN [setState(s, "sessionActive", FALSE) EXCEPT !.alert = TRUE]
              ELSE s
    IN  setState(s1, "isListening", FALSE)

recognition_onend(s) == setState(s, "isListening", FALSE)

----------------------------------------------------------------------------
(* Speech synthesis.  An utterance is queued, speaking or cancelled (its   *)
(* error event still to come).  h: it has the handlers of speak; cb: speak *)
(* was given an onEndCallback.  History fields: committed, its text was    *)
(* the last turn of the transcript when speak was called; stopped, a stop  *)
(* of the session cancelled it.                                            *)
(***************************************************************************)
\* window.speechSynthesis.cancel(); an utterance without handlers is forgotten
SynthCancel(s) ==
    LET live == {u \in BagToSet(s.utts) : u.h}
        F(u) == [u EXCEPT !.st = "cancelled"]
    IN  [s EXCEPT !.utts = MapBag([u \in live |-> s.utts[u]], F)]

SynthSpeak(s, utt) ==
    IF BagCardinality(s.utts) >= MaxUtt THEN [s EXCEPT !.overflow = TRUE]
    ELSE [s EXCEPT !.utts = @ (+) One(utt)]

\* is text the text of the last turn of the transcript, a tutor turn
IsLastTutorTurn(h, text) ==
    Len(h) > 0 /\ h[Len(h)].role = "model" /\ h[Len(h)].text = text

speak(s, text, cb) ==
    SynthSpeak(SynthCancel(s),
               [st |-> "queued", h |-> TRUE, cb |-> cb,
                committed |-> cb => IsLastTutorTurn(s.chatHistory, text),
                stopped |-> FALSE])

unlockAudio(s) ==
    SynthSpeak(s, [st |-> "queued", h |-> FALSE, cb |-> FALSE,
                   committed |-> TRUE, stopped |-> FALSE])

\* handlers that leave Speaking but do not call onEndCallback
utterance_ondone_NoCallback(s, u) == setState(s, "isSpeaking", FALSE)

\* utterance.onend and utterance.onerror of an utterance made by speak
utterance_ondone(s, u) ==
    LET s1 == setState(s, "isSpeaking", FALSE)
    IN  IF ~u.cb THEN s1
        ELSE IF s1.settleTimers >= MaxTimers THEN [s1 EXCEPT !.overflow = TRUE]
        ELSE [s1 EXCEPT !.settleTimers = @ + 1]

----------------------------------------------------------------------------
(* Tutor client: src/services/geminiService.ts *)
StartOutcomes == {"ok"}
SendOutcomes == {"okCorr", "netFail"}
FailOutcomes == {"parseFail", "netFail"}

\* startChatSession catches every error and resolves with a greeting
startChatSession(outcome) ==
    IF outcome = "ok" THEN [text |-> "greeting", rejected |-> FALSE]
    ELSE [text |-> "hello", rejected |-> FALSE]

\* sendMessageToTutor catches every error and resolves with a text
sendMessageToTutor(outcome) ==
    CASE outcome = "ok"        -> [text |-> "reply", corr |-> FALSE, rejected |-> FALSE]
      [] outcome = "okCorr"    -> [text |-> "reply", corr |-> TRUE, rejected |-> FALSE]
      [] outcome = "parseFail" -> [text |-> "raw", corr |-> FALSE, rejected |-> FALSE]
      [] OTHER                 -> [text |-> "sorry", corr |-> FALSE, rejected |-> FALSE]

\* the number of turns sendMessageToTutor keeps of the history it is given
HistoryWindow == 10

\* history.slice(-10).map(msg => ({role, parts: [{text}]}))
recentHistory(history) ==
    LET n == Len(history)
        k == IF n > HistoryWindow THEN HistoryWindow ELSE n
    IN  [i \in 1..k |-> [role |-> IF history[n - k + i].role = "user"
                                  THEN "user" ELSE "model",
                         text |-> history[n - k + i].text]]

\* the call of an async handler up to its await; sa is the sessionActive
\* of the render whose closure makes the call, hist the history the tutor
\* client sends.  History field: cancelled, the session was reset or left
\* while the call was in flight
IssueCall(s, kind, sa, hist) ==
    IF \/ BagCardinality(s.calls) >= callCap
       \/ Len(s.chatHistory) + BagCardinality(s.calls) + 1 > turnCap
    THEN [s EXCEPT !.overflow = TRUE]
    ELSE [s EXCEPT !.calls = @ (+) One([kind |-> kind, sa |-> sa, hist |-> hist,
                                        cancelled |-> FALSE])]

----------------------------------------------------------------------------
(* The core loop *)
\* a tutor turn that drops the correction of the reply
TutorTurn_NoCorrection(text, corr) ==
    [role |-> "model", text |-> text, corr |-> FALSE]

TutorTurn(text, corr) ==
    [role |-> "model", text |-> text, corr |-> corr]

\* a handleStartSession that returns early while a call is awaited
handleStartSession_Guarded(s) ==
    IF s.isProcessing THEN s
    ELSE LET s0 == IF variant = "immediate" THEN clearChat(unlockAudio(s)) ELSE s
             s1 == setState(s0, "sessionActive", TRUE)
             s2 == setState(s1, "isProcessing", TRUE)
         IN  IssueCall(s2, "start", TRUE, <<>>)

handleStartSession(s) ==
    LET s0 == IF variant = "immediate" THEN clearChat(unlockAudio(s)) ELSE s
        s1 == setState(s0, "sessionActive", TRUE)
        s2 == setState(s1, "isProcessing", TRUE)
    IN  IssueCall(s2, "start", TRUE, <<>>)

\* a handleStartSession without the finally block
handleStartResume_NoFinally(s, c, response) ==
    LET s0 == [s EXCEPT !.calls = @ (-) One(c)]
    IN  IF response.rejected THEN s0
        ELSE speak(addMessage(s0, Stamp(s0.now, TutorTurn(response.text, FALSE))),
                   response.text, TRUE)

\* handleStartSession after the await of startChatSession
handleStartResume(s, c, response) ==
    LET s0 == [s EXCEPT !.calls = @ (-) One(c)]
        s1 == IF response.rejected THEN s0
              ELSE speak(addMessage(s0, Stamp(s0.now, TutorTurn(response.text, FALSE))),
                         response.text, TRUE)
    IN  setState(s1, "isProcessing", FALSE)

\* the instances inputText comes from (at most one)
Sources(s) == {r \in BagToSet(s.rec) : r.src}

\* a handleSend that does not trim the text it tests
handleSend_NoTrim(s, history) ==
    IF s.inputText = "" \/ s.isProcessing THEN s
    ELSE LET userMsg == [id |-> s.now, role |-> "user", text |-> s.inputText,
                         corr |-> FALSE]
             Sent(r) == IF r.src THEN [r EXCEPT !.src = FALSE, !.sent = TRUE] ELSE r
             s1 == addMessage(s, userMsg)
             s2 == [setState(s1, "inputText", "") EXCEPT !.rec = MapBag(@, Sent)]
             s3 == stopListening(s2)
             s4 == setState(s3, "isProcessing", TRUE)
         IN  IssueCall(s4, "send", s.sessionActive, recentHistory(history))

\* history is the chatHistory of the render whose closure runs handleSend
handleSend(s, history) ==
    IF Trim(s.inputText) = "" \/ s.isProcessing THEN s
    ELSE LET userMsg == [id |-> s.now, role |-> "user", text |-> s.inputText,
                         corr |-> FALSE]
             Sent(r) == IF r.src THEN [r EXCEPT !.src = FALSE, !.sent = TRUE] ELSE r
             s1 == addMessage(s, userMsg)
             s2 == [setState(s1, "inputText", "") EXCEPT !.rec = MapBag(@, Sent)]
             s3 == stopListening(s2)
             s4 == setState(s3, "isProcessing", TRUE)
         IN  IssueCall(s4, "send", s.sessionActive, recentHistory(history))

\* a handleSend that speaks the reply before it appends the tutor turn
handleSendResume_SpeakFirst(s, c, response) ==
    LET s0 == [s EXCEPT !.calls = @ (-) One(c)]
        s1 == IF response.rejected THEN s0
              ELSE LET s2 == IF c.sa THEN speak(s0, response.text, TRUE) ELSE s0
                   IN  addMessage(s2, Stamp(s0.now + 1,
                                             TutorTurn(response.text, response.corr)))
    IN  setState(s1, "isProcessing", FALSE)

\* handleSend after the await of sendMessageToTutor
handleSendResume(s, c, response) ==
    LET s0 == [s EXCEPT !.calls = @ (-) One(c)]
        s1 == IF response.rejected THEN s0
              ELSE LET s2 == addMessage(s0, Stamp(s0.now + 1,
                                 TutorTurn(response.text, response.corr)))
                   IN  IF c.sa THEN speak(s2, response.text, TRUE) ELSE s2
    IN  setState(s1, "isProcessing", FALSE)

\* a condition that waits for capture to be active
AutoSendCond_WhileListening(s) ==
    /\ s.isListening
    /\ Len(Trim(s.inputText)) > 0
    /\ s.sessionActive
    /\ ~s.isProcessing
    /\ ~s.isSpeaking

AutoSendCond(s) ==
    /\ ~s.isListening
    /\ Len(Trim(s.inputText)) > 0
    /\ s.sessionActive
    /\ ~s.isProcessing
    /\ ~s.isSpeaking

----------------------------------------------------------------------------
(* Effects run by React after a handler *)
WakeLockRelease(s) ==
    IF s.wakeLockRef = "held" THEN [s EXCEPT !.wakeLockRef = "released"] ELSE s

\* at most MaxWl requests are followed: a further one is merged with them
requestWakeLock(s) ==
    IF s.wlPending >= MaxWl THEN s ELSE [s EXCEPT !.wlPending = @ + 1]

\* useEffect(..., [sessionActive]): cleanup of the last run, then the body
WakeLockEffect(pre, post) ==
    IF pre.sessionActive = post.sessionActive THEN post
    ELSE LET s1 == WakeLockRelease(post)
         IN  IF post.sessionActive THEN requestWakeLock(s1)
             ELSE [s1 EXCEPT !.wakeLockRef = "null"]

\* a listener that does not test sessionActive
handleVisibilityChange_Always(s) ==
    IF s.mounted /\ s.visible THEN requestWakeLock(s) ELSE s

\* the listener the effect adds to document; it is removed at unmount
handleVisibilityChange(s) ==
    IF s.mounted /\ s.visible /\ s.sessionActive THEN requestWakeLock(s) ELSE s

\* the cleanups that run when the component unmounts
UnmountCleanup(s) == RecStop(SynthCancel(WakeLockRelease(s)))

\* the auto-send effect of the immediate variant calls handleSend itself
AutoSendEffect(s) ==
    IF variant = "immediate" /\ AutoSendCond(s)
    THEN handleSend(s, s.chatHistory) ELSE s

\* history: an ended instance is kept only while inputText is its result
Forget(s) ==
    LET keep == {r \in BagToSet(s.rec) : Live(r) \/ r.src}
    IN  [s EXCEPT !.rec = [r \in keep |-> s.rec[r]]]

\* the dependencies of the auto-send effect
AutoSendDeps(s) ==
    <<s.isListening, s.inputText, s.sessionActive, s.isProcessing, s.isSpeaking>>

\* the auto-send effect of the debounce variant runs again when one of its
\* dependencies has changed: it arms a timer whose closure holds the
\* chatHistory of that render
\* an effect whose cleanup leaves the timer of the last run pending
TimerClosure_NoCleanup(pre, post) ==
    IF post.mounted /\ variant = "debounce" /\ AutoSendCond(post)
    THEN IF pre.mounted /\ AutoSendCond(pre) /\ AutoSendDeps(pre) = AutoSendDeps(post)
         THEN post
         ELSE [post EXCEPT !.effectHistory = post.chatHistory,
                           !.effectTimer = <<AutoSendDeps(post)>>]
    ELSE [post EXCEPT !.effectHistory = <<>>]

TimerClosure(pre, post) ==
    IF post.mounted /\ variant = "debounce" /\ AutoSendCond(post)
    THEN IF pre.mounted /\ AutoSendCond(pre) /\ AutoSendDeps(pre) = AutoSendDeps(post)
         THEN post
         ELSE [post EXCEPT !.effectHistory = post.chatHistory,
                           !.effectTimer = <<AutoSendDeps(post)>>]
    ELSE [post EXCEPT !.effectHistory = <<>>, !.effectTimer = <<>>]

\* the effects of the render, each run once on the result of the one before
Render(pre, post) ==
    LET effects == IF ~pre.mounted THEN post
                   ELSE IF ~post.mounted THEN UnmountCleanup(post)
                   ELSE AutoSendEffect(WakeLockEffect(pre, post))
    IN  Forget(TimerClosure(pre, effects))

Commit(s) ==
    /\ ~s.overflow
    /\ mounted' = s.mounted
    /\ chatHistory' = s.chatHistory
    /\ turnIds' = s.turnIds
    /\ now' = s.now
    /\ inputText' = s.inputText
    /\ sessionActive' = s.sessionActive
    /\ isProcessing' = s.isProcessing
    /\ isListening' = s.isListening
    /\ isSpeaking' = s.isSpeaking
    /\ rec' = s.rec
    /\ utts' = s.utts
    /\ settleTimers' = s.settleTimers
    /\ calls' = s.calls
    /\ wakeLockRef' = s.wakeLockRef
    /\ wlPending' = s.wlPending
    /\ visible' = s.visible
    /\ userIdle' = s.userIdle
    /\ effectHistory' = s.effectHistory
    /\ effectTimer' = s.effectTimer
    /\ currentScreen' = s.currentScreen
    /\ UNCHANGED <<variant, callCap, turnCap, user, vocabulary, currentIndex>>

\* the handler and the effects run once; their result is the next state
\* what the effects of the last render have seen of the state
Rendered ==
    [mounted |-> mounted, sessionActive |-> sessionActive,
     isListening |-> isListening, inputText |-> inputText,
     isProcessing |-> isProcessing, isSpeaking |-> isSpeaking]

Do(post) == \E p \in {post} : \E t \in {Render(Rendered, p)} : Commit(t)

(* The store as one record, for the actions of the store and of the        *)
(* screens other than ChatScreen, which leave the state of ChatScreen as   *)
(* it is.                                                                  *)
Store ==
    [currentScreen |-> currentScreen, user |-> user, now |-> now,
     chatHistory |-> chatHistory, turnIds |-> turnIds,
     vocabulary |-> vocabulary, currentIndex |-> currentIndex,
     overflow |-> FALSE]

CommitStore(s) ==
    /\ ~s.overflow
    /\ currentScreen' = s.currentScreen
    /\ user' = s.user
    /\ now' = s.now
    /\ chatHistory' = s.chatHistory
    /\ turnIds' = s.turnIds
    /\ vocabulary' = s.vocabulary
    /\ currentIndex' = s.currentIndex
    /\ UNCHANGED <<variant, mounted, inputText, sessionActive, isProcessing,
                   isListening, isSpeaking, rec, utts, settleTimers, calls,
                   wakeLockRef, wlPending, visible, userIdle, effectHistory,
                   effectTimer, callCap, turnCap>>

DoStore(post) == \E t \in {post} : CommitStore(t)

----------------------------------------------------------------------------
InitScreen ==
    /\ mounted = TRUE
    /\ chatHistory = <<>>
    /\ turnIds = <<>>
    /\ now = 0
    /\ inputText = ""
    /\ sessionActive = FALSE
    /\ isProcessing = FALSE
    /\ isListening = FALSE
    /\ isSpeaking = FALSE
    /\ rec = EmptyBag
    /\ utts = EmptyBag
    /\ settleTimers = 0
    /\ calls = EmptyBag
    /\ wakeLockRef = "null"
    /\ wlPending = 0
    /\ visible = TRUE
    /\ userIdle = FALSE
    /\ effectHistory = <<>>
    /\ effectTimer = <<>>
    /\ currentScreen = "practice"
    /\ user = <<[streak |-> 1, lastLogin |-> 0, lastLoginDate |-> 0]>>
    /\ vocabulary = <<>>
    /\ currentIndex = 0

\* src/screens/ChatScreen.tsx
Init ==
    /\ variant = "debounce"
    /\ callCap = MaxCalls /\ turnCap = MaxTurns
    /\ InitScreen

\* src/unnamed/part_004
InitImmediate ==
    /\ variant = "immediate"
    /\ callCap = MaxCalls /\ turnCap = MaxTurns
    /\ InitScreen

(* User actions.  The start overlay covers the screen while the session is  *)
(* inactive, so the buttons under it are reachable only in an active one.   *)
StartSession ==
    /\ mounted /\ ~sessionActive
    /\ Do(handleStartSession(St))

TypeText(t) ==
    /\ mounted /\ ~isProcessing /\ t # inputText
    /\ Do([St EXCEPT !.inputText = t, !.rec = Unsrc(@)])

SendPressed ==
    /\ mounted /\ ~isProcessing
    /\ Do(handleSend(St, chatHistory))

MicButton ==
    /\ mounted /\ sessionActive
    /\ Do(IF isListening THEN stopListening(St) ELSE startListening(St))

ReplaySpeak(k) ==
    /\ mounted /\ sessionActive
    /\ chatHistory[k].role = "model"
    /\ Do(speak(St, chatHistory[k].text, FALSE))

\* history: the tutor utterance being spoken and the calls in flight when
\* the session is stopped are marked
MarkStopped(s) ==
    LET F(u) == IF u.cb /\ u.st = "speaking"
                THEN [u EXCEPT !.stopped = TRUE] ELSE u
        G(c) == [c EXCEPT !.cancelled = TRUE]
    IN  [s EXCEPT !.utts = MapBag(@, F), !.calls = MapBag(@, G)]

Reset ==
    /\ mounted /\ sessionActive
    /\ Do(setState(clearChat(SynthCancel(MarkStopped(St))), "sessionActive", FALSE))

\* the component's state is discarded when it unmounts
Unmount(s) ==
    [s EXCEPT !.mounted = FALSE, !.inputText = "", !.rec = Unsrc(@),
              !.isProcessing = FALSE, !.isListening = FALSE, !.isSpeaking = FALSE]

Back ==
    /\ mounted /\ sessionActive
    /\ Do(Unmount(setScreen(setState(MarkStopped(St), "sessionActive", FALSE),
                            "dashboard")))

(* Timers *)
\* the callback of the pending timer; the timer is spent once it has run
AutoSendTimer ==
    /\ effectTimer # <<>>
    /\ Do(handleSend([St EXCEPT !.effectTimer = <<>>], effectHistory))

SettleTimer ==
    /\ settleTimers > 0
    /\ Do(startListening([St EXCEPT !.settleTimers = @ - 1]))

(* Events of a recognition instance r *)
RecStep(r, r2) == [St EXCEPT !.rec = (@ (-) One(r)) (+) One(r2)]

RecOnStart(r) ==
    /\ r.st = "starting"
    /\ Do(recognition_onstart(RecStep(r, [r EXCEPT !.st = "started"])))

RecOnResult(r, t) ==
    /\ r.st = "started"
    /\ Do(recognition_onresult(St, r, t))

RecOnError(r, kind) ==
    /\ r.st \in {"starting", "started"}
    /\ kind = "not-allowed" => r.st = "starting"
    /\ Do(recognition_onerror(RecStep(r, [r EXCEPT !.st = "errored"]), kind))

RecOnEnd(r) ==
    /\ \/ r.st \in {"started", "errored"}
       \/ r.st = "starting" /\ r.stop
    /\ Do(recognition_onend(RecStep(r, [r EXCEPT !.st = "ended", !.stop = FALSE, !.cur = FALSE])))

(* Events of an utterance u *)
UttOnStart(u) ==
    /\ u.st = "queued"
    /\ \A v \in BagToSet(utts) : v.st # "speaking"
    /\ LET s == [St EXCEPT !.utts = (@ (-) One(u)) (+) One([u EXCEPT !.st = "speaking"])]
       IN  Do(IF u.h THEN setState(s, "isSpeaking", TRUE) ELSE s)

UttDone(u) ==
    LET s == [St EXCEPT !.utts = @ (-) One(u)]
    IN  Do(IF u.h THEN utterance_ondone(s, u) ELSE s)

UttOnEnd(u) ==
    /\ u.st = "speaking"
    /\ UttDone(u)

UttOnError(u) ==
    /\ u.st \in {"queued", "speaking", "cancelled"}
    /\ UttDone(u)

(* Resolution of the awaited calls *)
StartResolve(c, outcome) ==
    /\ c.kind = "start"
    /\ Do(handleStartResume(St, c, startChatSession(outcome)))

SendResolve(c, outcome) ==
    /\ c.kind = "send"
    /\ Do(handleSendResume(St, c, sendMessageToTutor(outcome)))

\* the platform grants a request only to a visible page
WakeLockSettle(ok) ==
    /\ wlPending > 0
    /\ ok => visible
    /\ Do(IF ok THEN [St EXCEPT !.wlPending = @ - 1, !.wakeLockRef = "held"]
          ELSE [St EXCEPT !.wlPending = @ - 1])

(* Page visibility.  The platform revokes the wake lock of a hidden page. *)
VisibilityHidden ==
    /\ visible
    /\ Do(handleVisibilityChange(
            [St EXCEPT !.visible = FALSE,
                       !.wakeLockRef = IF @ = "held" THEN "revoked" ELSE @]))

VisibilityVisible ==
    /\ ~visible
    /\ Do(handleVisibilityChange([St EXCEPT !.visible = TRUE]))

NextCommon ==
    \/ StartSession
    \/ \E t \in TypedWords : TypeText(t)
    \/ SendPressed
    \/ MicButton
    \/ \E k \in DOMAIN chatHistory : ReplaySpeak(k)
    \/ Reset
    \/ Back
    \/ SettleTimer
    \/ \E r \in BagToSet(rec) : RecOnStart(r)
    \/ \E r \in BagToSet(rec), t \in Transcripts : RecOnResult(r, t)
    \/ \E r \in BagToSet(rec), kind \in ErrorKinds : RecOnError(r, kind)
    \/ \E r \in BagToSet(rec) : RecOnEnd(r)
    \/ \E u \in BagToSet(utts) : UttOnStart(u)
    \/ \E u \in BagToSet(utts) : UttOnEnd(u)
    \/ \E u \in BagToSet(utts) : UttOnError(u)
    \/ \E c \in BagToSet(calls), outcome \in StartOutcomes : StartResolve(c, outcome)
    \/ \E c \in BagToSet(calls), outcome \in SendOutcomes : SendResolve(c, outcome)

Next == NextCommon \/ AutoSendTimer

\* the loop of src/screens/ChatScreen.tsx; the platform leaves the wake
\* lock requests pending
Spec == Init /\ [][Next]_vars

\* the loop of src/unnamed/part_004
SpecImmediate == InitImmediate /\ [][NextCommon]_vars

\* The wake lock depends on sessionActive, on the mounting of the component
\* and on the page only: the steps that change them, and what enables them
NextWake ==
    \/ StartSession
    \/ MicButton
    \/ Reset
    \/ Back
    \/ \E r \in BagToSet(rec) : RecOnStart(r)
    \/ \E r \in BagToSet(rec), kind \in ErrorKinds : RecOnError(r, kind)
    \/ \E r \in BagToSet(rec) : RecOnEnd(r)
    \/ \E c \in BagToSet(calls), outcome \in StartOutcomes : StartResolve(c, outcome)
    \/ \E ok \in BOOLEAN : WakeLockSettle(ok)
    \/ VisibilityHidden
    \/ VisibilityVisible

\* the session with the wake lock requests settled by the platform
SpecWake == Init /\ [][NextWake]_vars

TypeOK ==
    /\ turnCap \in {MaxTurns, MaxTurnsRace}
    /\ Len(chatHistory) <= turnCap
    /\ Len(turnIds) = Len(chatHistory)
    /\ now \in 0..MaxClock
    /\ currentScreen \in {"login", "dashboard", "practice", "vocabulary"}
    /\ Len(user) <= 1
    /\ Len(vocabulary) <= MaxVocab
    /\ currentIndex \in 0..MaxVocab
    /\ settleTimers \in 0..MaxTimers
    /\ wlPending \in 0..MaxWl
    /\ visible \in BOOLEAN
    /\ userIdle \in BOOLEAN
    /\ callCap \in {MaxCalls, MaxCallsRace}
    /\ BagCardinality(calls) <= callCap
    /\ BagCardinality(rec) <= MaxRec
    /\ BagCardinality(utts) <= MaxUtt
    /\ Cardinality(Sources(St)) <= 1
    /\ Len(effectTimer) <= 1

----------------------------------------------------------------------------
(* Properties *)
Outstanding(u) == u.st \in {"queued", "speaking"}

\* C1: at most one of Listening, Speaking and AwaitingReply is true
C1_MutualExclusion ==
    /\ ~(isListening /\ isSpeaking)
    /\ ~(isListening /\ isProcessing)
    /\ ~(isSpeaking /\ isProcessing)

\* C2: when a sendMessageToTutor call that was in flight when the session
\* was reset or left resolves successfully in an inactive session, no turn
\* is appended, no synthesis is started and the session stays inactive
C2_DiscardLateResult ==
    [][\A c \in BagToSet(calls), o \in SendOutcomes \ FailOutcomes :
         (c.cancelled /\ ~sessionActive /\ SendResolve(c, o))
            => /\ chatHistory' = chatHistory
               /\ utts' = utts
               /\ ~sessionActive']_vars

\* C3: a reset while a tutor utterance is spoken cancels the synthesis,
\* releases the wake lock and makes the session inactive, and the later end
\* or error event of that utterance schedules no settle timer and starts no
\* capture
C3_StopMidSpeaking ==
    /\ [][(Reset /\ \E u \in BagToSet(utts) : u.cb /\ u.st = "speaking")
            => /\ \A u \in BagToSet(utts') : ~Outstanding(u)
               /\ wakeLockRef' # "held"
               /\ ~sessionActive']_vars
    /\ [][\A u \in BagToSet(utts) :
            (u.stopped /\ (UttOnEnd(u) \/ UttOnError(u)))
               => settleTimers' = settleTimers /\ rec' = rec]_vars

\* C4: whenever speak is called for a tutor reply (the greeting or the reply
\* of an exchange), the reply is already the last turn of the transcript
C4_CommitBeforeSpeak ==
    \A u \in BagToSet(utts) : u.cb => u.committed

\* the reply of an exchange is being spoken
C4_Witness ==
    /\ \E u \in BagToSet(utts) : u.cb /\ u.committed /\ u.st = "speaking"
    /\ Len(chatHistory) >= 2
    /\ chatHistory[Len(chatHistory)].role = "model"
    /\ chatHistory[Len(chatHistory) - 1].role = "user"

\* an instance that is capturing: started, not stopped, no error
Capturing(r) == r.st = "started" /\ ~r.stop

\* C5: the auto-send never commits text that a recognition instance still
\* capturing has delivered (interim text); text is committed as a user turn
\* only when its capture has finalized or the user submits it
C5_NoInterimCommit ==
    [][AutoSendTimer => ~\E r \in Sources(St) : Capturing(r)]_vars

UserTurnAppended ==
    /\ Len(chatHistory') = Len(chatHistory) + 1
    /\ chatHistory'[Len(chatHistory')].role = "user"

\* C6: one capture produces at most one user turn: no user turn is appended
\* from the text of a recognition instance that already had a result committed
C6_ExactlyOnceCommit ==
    [][UserTurnAppended => ~\E r \in Sources(St) : r.sent]_vars

\* C7: when the tutor exchange fails, no tutor turn is appended, isProcessing
\* becomes false and neither synthesis nor capture is started
C7_ExchangeFailure ==
    [][\A c \in BagToSet(calls), o \in SendOutcomes \cap FailOutcomes :
         SendResolve(c, o)
            => /\ chatHistory' = chatHistory
               /\ ~isProcessing'
               /\ utts' = utts
               /\ rec' = rec
               /\ isSpeaking' = isSpeaking /\ isListening' = isListening]_vars

\* C8: startListening is never called while an utterance is outstanding
C8_NoCaptureWhileSpeaking ==
    [][((MicButton /\ ~isListening) \/ SettleTimer)
          => ~\E u \in BagToSet(utts) : Outstanding(u)]_vars

\* C9: an event of a superseded recognition instance changes none of
\* isListening, inputText and sessionActive
C9_StaleCaptureIgnored ==
    [][\A r \in BagToSet(rec) :
         (/\ ~r.cur
          /\ \/ RecOnStart(r)
             \/ \E t \in Transcripts : RecOnResult(r, t)
             \/ \E kind \in ErrorKinds : RecOnError(r, kind)
             \/ RecOnEnd(r))
            => UNCHANGED <<isListening, inputText, sessionActive>>]_vars

\* C10: after a reset or a back, no utterance is outstanding, the active
\* recognition instance is stopped, the wake lock is released and the
\* session is inactive
C10_CancellationComplete ==
    [][(Reset \/ Back)
          => /\ \A u \in BagToSet(utts') : ~Outstanding(u)
             /\ \A r \in BagToSet(rec') : (r.cur /\ Live(r)) => r.stop
             /\ wakeLockRef' # "held"
             /\ ~sessionActive']_vars

\* C11: in every state where the session is inactive, none of isListening,
\* isSpeaking and isProcessing is true, no recognition instance and no
\* utterance is outstanding and no settle timer is pending
C11_InactiveExcludesActivity ==
    ~sessionActive =>
        /\ ~isListening /\ ~isSpeaking /\ ~isProcessing
        /\ \A r \in BagToSet(rec) : ~Live(r)
        /\ \A u \in BagToSet(utts) : ~Outstanding(u)
        /\ settleTimers = 0

\* C12: whenever the session is inactive, the sentinel of the wake lock is
\* not held
C12_WakeLockFollowsSession ==
    ~sessionActive => wakeLockRef # "held"

\* C13: when the page becomes visible in an active session the wake lock is
\* requested again, and a visibility change in an inactive session requests
\* nothing
C13_WakeLockReacquire ==
    /\ [][(VisibilityVisible /\ mounted /\ sessionActive /\ wlPending < MaxWl)
            => wlPending' = wlPending + 1]_vars
    /\ [][((VisibilityVisible \/ VisibilityHidden) /\ ~sessionActive)
            => wlPending' = wlPending]_vars

\* the platform has revoked the lock of the active session and the page,
\* visible again, has a request pending
C13_Witness ==
    /\ sessionActive /\ mounted /\ visible
    /\ wakeLockRef = "revoked"
    /\ wlPending > 0

(* The loop with blank text: the user types blank or other text, speaks,   *)
(* and sends; the session is not stopped.                                  *)
NextBlank ==
    \/ StartSession
    \/ \E t \in TypedTexts : TypeText(t)
    \/ SendPressed
    \/ MicButton
    \/ AutoSendTimer
    \/ SettleTimer
    \/ \E r \in BagToSet(rec) : RecOnStart(r)
    \/ \E r \in BagToSet(rec), t \in Transcripts : RecOnResult(r, t)
    \/ \E r \in BagToSet(rec) : RecOnEnd(r)
    \/ \E u \in BagToSet(utts) : UttOnStart(u)
    \/ \E u \in BagToSet(utts) : UttOnEnd(u)
    \/ \E u \in BagToSet(utts) : UttOnError(u)
    \/ \E c \in BagToSet(calls), outcome \in StartOutcomes : StartResolve(c, outcome)
    \/ \E c \in BagToSet(calls), outcome \in SendOutcomes : SendResolve(c, outcome)

SpecBlank == Init /\ [][NextBlank]_vars

\* C14: when a recognition instance ends in an active session while inputText
\* is empty or blank, no turn is appended, no call is issued, isProcessing
\* does not become true, the session stays active and neither capture nor
\* synthesis is started; a send on an empty or blank text changes nothing
C14_EmptyFinalization ==
    /\ [][\A r \in BagToSet(rec) :
            (sessionActive /\ Trim(inputText) = "" /\ rec' # rec /\ RecOnEnd(r))
               => /\ chatHistory' = chatHistory
                  /\ calls' = calls
                  /\ isProcessing' = isProcessing
                  /\ sessionActive'
                  /\ inputText' = inputText
                  /\ BagCardinality(rec') <= BagCardinality(rec)
                  /\ utts' = utts
                  /\ settleTimers' = settleTimers]_vars
    /\ [][(Trim(inputText) = "" /\ SendPressed) => UNCHANGED vars]_vars

\* the session is idle after its capture has ended on a blank text
C14_Witness ==
    /\ sessionActive /\ mounted
    /\ inputText = " "
    /\ ~isListening /\ ~isProcessing /\ ~isSpeaking
    /\ rec = EmptyBag /\ utts = EmptyBag /\ calls = EmptyBag
    /\ settleTimers = 0
    /\ Len(chatHistory) = 1

\* Scenario A: the session was started on an empty transcript, its greeting
\* and the user turn of a finalized utterance are committed, and the call c
\* of that exchange is in flight
ScenarioA(c) ==
    /\ c.kind = "send" /\ c.sa /\ ~c.cancelled
    /\ sessionActive /\ mounted
    /\ Len(chatHistory) = 2
    /\ chatHistory[1] = [role |-> "model", text |-> "greeting", corr |-> FALSE]
    /\ chatHistory[2].role = "user"

----------------------------------------------------------------------------
(* The loop left to itself: from some moment on the user does nothing. *)
UserLeaves ==
    /\ ~userIdle
    /\ Do([St EXCEPT !.userIdle = TRUE])

NextLive ==
    \/ ~userIdle /\ StartSession
    \/ ~userIdle /\ MicButton
    \/ UserLeaves
    \/ AutoSendTimer
    \/ SettleTimer
    \/ \E r \in BagToSet(rec) : RecOnStart(r)
    \/ \E r \in BagToSet(rec), t \in Transcripts : RecOnResult(r, t)
    \/ \E r \in BagToSet(rec), kind \in ErrorKinds : RecOnError(r, kind)
    \/ \E r \in BagToSet(rec) : RecOnEnd(r)
    \/ \E u \in BagToSet(utts) : UttOnStart(u)
    \/ \E u \in BagToSet(utts) : UttOnEnd(u)
    \/ \E u \in BagToSet(utts) : UttOnError(u)
    \/ \E c \in BagToSet(calls), outcome \in StartOutcomes : StartResolve(c, outcome)
    \/ \E c \in BagToSet(calls), outcome \in SendOutcomes : SendResolve(c, outcome)

\* what the platform owes the loop: a timer whose condition stays true
\* fires, a recognition instance ends, an utterance ends or fails
Progress ==
    \/ AutoSendTimer
    \/ \E r \in BagToSet(rec) : RecOnEnd(r)
    \/ \E u \in BagToSet(utts) : UttOnEnd(u) \/ UttOnError(u)

SpecLive == Init /\ [][NextLive]_vars /\ WF_vars(Progress)

\* capture has ended with a text, the controller is idle and the transcript
\* has room for an exchange
CaptureEndedWithText ==
    /\ userIdle
    /\ sessionActive /\ mounted
    /\ ~isListening /\ ~isSpeaking /\ ~isProcessing
    /\ Trim(inputText) # ""
    /\ \E r \in Sources(St) : r.st = "ended"
    /\ calls = EmptyBag
    /\ Len(chatHistory) + 2 <= MaxTurns

ExchangeIssued ==
    /\ isProcessing
    /\ \E c \in BagToSet(calls) : c.kind = "send" /\ c.sa
    /\ chatHistory # <<>>
    /\ chatHistory[Len(chatHistory)].role = "user"

C17_PermissionDenied ==
    /\ [][\A r \in BagToSet(rec) :
            (rec' # rec /\ RecOnError(r, "not-allowed"))
               => /\ ~sessionActive' /\ ~isListening'
                  /\ recognition_onerror(St, "not-allowed").alert]_vars
    /\ [][\A r \in BagToSet(rec), kind \in ErrorKinds \ {"not-allowed"} :
            (rec' # rec /\ RecOnError(r, kind))
               => /\ sessionActive' = sessionActive
                  /\ ~recognition_onerror(St, kind).alert]_vars

\* the session was forced inactive while its start call, which no reset and
\* no back has cancelled, is still in flight
C17_Witness ==
    /\ mounted /\ ~sessionActive /\ ~isListening
    /\ \E c \in BagToSet(calls) : c.kind = "start" /\ ~c.cancelled
    /\ \E r \in BagToSet(rec) : r.st = "errored"

\* C18: after an error other than 'not-allowed' of a recognition instance,
\* the auto-send commits no text that this instance has delivered
C18_GenericErrorNoAdvance ==
    [][(Len(chatHistory') # Len(chatHistory) /\ AutoSendTimer)
          => ~\E r \in Sources(St) : r.st = "errored"]_vars

\* C19: in an active session, the error event of the utterance of a tutor
\* reply makes isSpeaking false, schedules the settle timer and takes the
\* utterance away, so that its callback runs once; the settle timer starts
\* capture
C19_SynthesisFailure ==
    /\ [][\A u \in BagToSet(utts) :
            (u.cb /\ mounted /\ sessionActive /\ utts' # utts /\ UttOnError(u))
               => /\ ~isSpeaking'
                  /\ settleTimers' = settleTimers + 1
                  /\ CopiesIn(u, utts') = CopiesIn(u, utts) - 1
                  /\ BagCardinality(utts') = BagCardinality(utts) - 1]_vars
    /\ [][(mounted /\ settleTimers' # settleTimers /\ SettleTimer)
            => /\ settleTimers' = settleTimers - 1
               /\ \E r \in BagToSet(rec') : r.cur /\ r.st = "starting"]_vars

\* the state after the utterance of the greeting has failed: the session is
\* active, isSpeaking is false and the settle timer is pending
C19_Witness ==
    /\ sessionActive /\ mounted /\ ~isSpeaking
    /\ settleTimers = 1
    /\ utts = EmptyBag /\ rec = EmptyBag /\ calls = EmptyBag
    /\ Len(chatHistory) = 1

\* the recognition instances that have started and not ended
Started == {r \in BagToSet(rec) : r.st = "started"}

\* C20: at most one recognition instance is started and not ended, and at
\* most one utterance is outstanding
C20_SingleOutstanding ==
    /\ BagCardinality([r \in Started |-> rec[r]]) <= 1
    /\ BagCardinality([u \in {v \in BagToSet(utts) : Outstanding(v)} |-> utts[u]]) <= 1

\* C21: while a session is active, a step that changes the transcript
\* appends exactly one turn at its end and leaves the turns before it as
\* they were
C21_AppendOnly ==
    [][(sessionActive /\ sessionActive' /\ chatHistory' # chatHistory)
          => /\ Len(chatHistory') = Len(chatHistory) + 1
             /\ SubSeq(chatHistory', 1, Len(chatHistory)) = chatHistory]_vars

\* an active session whose transcript has grown to three turns, the reply
\* of the exchange last, and nothing in flight
C21_Witness ==
    /\ sessionActive /\ mounted
    /\ Len(chatHistory) = 3
    /\ chatHistory[1].role = "model" /\ chatHistory[2].role = "user"
    /\ chatHistory[3].role = "model"
    /\ calls = EmptyBag /\ utts = EmptyBag

\* C22: every start of a session leaves the transcript empty, so that the
\* greeting is committed to a transcript without turns of an earlier session
C22_StartClearsTranscript ==
    [][(~sessionActive /\ sessionActive' /\ StartSession) => chatHistory' = <<>>]_vars

----------------------------------------------------------------------------
(* The typed session: the user types and sends, resets and starts again,   *)
(* and the model follows two tutor calls in flight.                        *)
InitRace ==
    /\ variant = "debounce"
    /\ callCap = MaxCallsRace /\ turnCap = MaxTurns
    /\ InitScreen

NextRace ==
    \/ StartSession
    \/ \E t \in TypedTexts : TypeText(t)
    \/ SendPressed
    \/ Reset
    \/ Back
    \/ AutoSendTimer
    \/ SettleTimer
    \/ \E r \in BagToSet(rec) : RecOnStart(r)
    \/ \E r \in BagToSet(rec) : RecOnEnd(r)
    \/ \E u \in BagToSet(utts) : UttOnStart(u)
    \/ \E u \in BagToSet(utts) : UttOnEnd(u)
    \/ \E u \in BagToSet(utts) : UttOnError(u)
    \/ \E c \in BagToSet(calls), outcome \in StartOutcomes : StartResolve(c, outcome)
    \/ \E c \in BagToSet(calls), outcome \in SendOutcomes : SendResolve(c, outcome)

SpecRace == InitRace /\ [][NextRace]_vars

\* a send while a tutor call is in flight appends no turn
SendRejectedInFlight ==
    [][(calls # EmptyBag /\ chatHistory' # chatHistory /\ (SendPressed \/ AutoSendTimer))
          => FALSE]_vars

\* C23: at most one tutor call (of a session start or of a send) is in
\* flight at any time, so that no session start is issued while the call
\* of an earlier start is unresolved, and a send while a call is in flight
\* appends no turn
C23_NoConcurrentCalls ==
    /\ [](BagCardinality(calls) <= 1)
    /\ SendRejectedInFlight

\* C24: when the startChatSession call that was in flight when the session
\* was reset or left resolves in an inactive session, no greeting turn is
\* appended, no synthesis and no capture is started and the session stays
\* inactive
C24_DiscardLateStart ==
    [][\A c \in BagToSet(calls), o \in StartOutcomes :
         (c.cancelled /\ ~sessionActive /\ calls' # calls /\ StartResolve(c, o))
            => /\ chatHistory' = chatHistory
               /\ utts' = utts
               /\ rec' = rec /\ settleTimers' = settleTimers
               /\ ~sessionActive']_vars

\* C25: a step that makes the session inactive (reset, back, forced stop)
\* discards the text that capture has accumulated: inputText is no longer
\* the result of a recognition instance
C25_PendingAbandoned ==
    [][(sessionActive /\ ~sessionActive')
          => ~\E r \in BagToSet(rec') : r.src]_vars

----------------------------------------------------------------------------
(* The loop with a tutor client whose calls settle. *)
Resolve ==
    \E c \in BagToSet(calls) :
        \/ \E outcome \in StartOutcomes : StartResolve(c, outcome)
        \/ \E outcome \in SendOutcomes : SendResolve(c, outcome)

\* the voice loop: the user starts the session, uses the mic button and
\* speaks
NextReply ==
    \/ StartSession
    \/ MicButton
    \/ AutoSendTimer
    \/ SettleTimer
    \/ \E r \in BagToSet(rec) : RecOnStart(r)
    \/ \E r \in BagToSet(rec), t \in Transcripts : RecOnResult(r, t)
    \/ \E r \in BagToSet(rec), kind \in ErrorKinds : RecOnError(r, kind)
    \/ \E r \in BagToSet(rec) : RecOnEnd(r)
    \/ \E u \in BagToSet(utts) : UttOnStart(u)
    \/ \E u \in BagToSet(utts) : UttOnEnd(u)
    \/ \E u \in BagToSet(utts) : UttOnError(u)
    \/ \E c \in BagToSet(calls), outcome \in StartOutcomes : StartResolve(c, outcome)
    \/ \E c \in BagToSet(calls), outcome \in SendOutcomes : SendResolve(c, outcome)

\* what the platform owes the loop: an awaited call settles, an utterance
\* ends or fails
Settle ==
    \/ Resolve
    \/ \E u \in BagToSet(utts) : UttOnEnd(u) \/ UttOnError(u)

SpecReply == Init /\ [][NextReply]_vars /\ WF_vars(Settle)

\* C26: once isProcessing is true, it eventually becomes false; the step in which a tutor call settles,
\* successfully or not, makes isProcessing false and keeps every turn of
\* the transcript
C26_AwaitingReplyExits ==
    /\ isProcessing ~> ~isProcessing
    /\ [][(mounted /\ calls' # calls /\ Resolve)
            => /\ ~isProcessing'
               /\ Len(chatHistory') >= Len(chatHistory)
               /\ SubSeq(chatHistory', 1, Len(chatHistory)) = chatHistory]_vars

\* the reply of an exchange is awaited
C26_Witness ==
    /\ isProcessing /\ sessionActive
    /\ \E c \in BagToSet(calls) : c.kind = "send"
    /\ Len(chatHistory) = 2

----------------------------------------------------------------------------
(* The typed session with a clock: Date.now() returns the same value until *)
(* a millisecond has passed.                                                *)
Tick ==
    /\ now < MaxNow
    /\ Do([St EXCEPT !.now = @ + 1])

NextIds == NextRace \/ Tick

SpecIds == Init /\ [][NextIds]_vars

\* C27: the ids of the turns of the transcript strictly increase in
\* transcript order, and so are pairwise distinct
C27_IdsMonotonic ==
    \A i, j \in DOMAIN turnIds : i < j => turnIds[i] < turnIds[j]

----------------------------------------------------------------------------
(* The life of the screen: sessions are started, reset, left and forced    *)
(* inactive, and the user comes back to the screen.                        *)
\* ChatScreen is mounted again, once the events of the instance that was
\* unmounted have drained: fresh state and refs, and clearChat on mount
Mount ==
    /\ ~mounted
    /\ rec = EmptyBag /\ utts = EmptyBag /\ calls = EmptyBag /\ settleTimers = 0
    /\ Do(clearChat([St EXCEPT !.mounted = TRUE, !.wakeLockRef = "null",
                               !.wlPending = 0, !.currentScreen = "practice"]))

NextLife ==
    \/ StartSession
    \/ MicButton
    \/ Reset
    \/ Back
    \/ Mount
    \/ SettleTimer
    \/ \E r \in BagToSet(rec) : RecOnStart(r)
    \/ \E r \in BagToSet(rec), kind \in ErrorKinds : RecOnError(r, kind)
    \/ \E r \in BagToSet(rec) : RecOnEnd(r)
    \/ \E u \in BagToSet(utts) : UttOnStart(u)
    \/ \E u \in BagToSet(utts) : UttOnEnd(u)
    \/ \E u \in BagToSet(utts) : UttOnError(u)
    \/ \E c \in BagToSet(calls), outcome \in StartOutcomes : StartResolve(c, outcome)

SpecLife == InitRace /\ [][NextLife]_vars

\* the bounds of the model leave room for the call and the greeting of one
\* more session start
RoomToStart ==
    /\ BagCardinality(calls) < callCap
    /\ Len(chatHistory) + BagCardinality(calls) < turnCap

\* C28: the controller starts inactive; in every state where the screen is
\* shown and the session is inactive a start is enabled, and every start
\* makes the session active; in every state some user action or pending
\* event can take a step (but for the start that the bounds cut off)
C28_InactiveReenterable ==
    /\ (mounted /\ ~sessionActive /\ RoomToStart) => ENABLED <<StartSession>>_vars
    /\ (mounted /\ ~sessionActive) => handleStartSession(St).sessionActive
    /\ (mounted /\ ~sessionActive /\ ~RoomToStart) \/ ENABLED <<NextLife>>_vars

\* a session started again after a reset, while the call of the session
\* that was reset is still awaited
C28_Witness ==
    /\ mounted /\ sessionActive
    /\ \E c \in BagToSet(calls) : c.cancelled
    /\ \E c \in BagToSet(calls) : ~c.cancelled

----------------------------------------------------------------------------
(* The typed session with two calls followed and room for one more turn. *)
InitStale ==
    /\ variant = "debounce"
    /\ callCap = MaxCallsRace /\ turnCap = MaxTurnsRace
    /\ InitScreen

\* the user types and leaves the sending to the auto-send timer
NextStale ==
    \/ StartSession
    \/ \E t \in TypedTexts : TypeText(t)
    \/ Reset
    \/ AutoSendTimer
    \/ SettleTimer
    \/ \E r \in BagToSet(rec) : RecOnStart(r)
    \/ \E r \in BagToSet(rec) : RecOnEnd(r)
    \/ \E u \in BagToSet(utts) : UttOnStart(u)
    \/ \E u \in BagToSet(utts) : UttOnEnd(u)
    \/ \E u \in BagToSet(utts) : UttOnError(u)
    \/ \E c \in BagToSet(calls), outcome \in StartOutcomes : StartResolve(c, outcome)
    \/ \E c \in BagToSet(calls), outcome \in SendOutcomes : SendResolve(c, outcome)

SpecStale == InitStale /\ [][NextStale]_vars

\* the last at most 10 turns of transcript h, speakers and texts in order
LastTurns(h) ==
    LET n == Len(h)
        first == IF n > 10 THEN n - 10 ELSE 0
    IN  [i \in 1..(n - first) |-> [role |-> h[first + i].role,
                                   text |-> h[first + i].text]]

\* C29: when a user turn is committed, the exchange issued for it is given
\* the last at most 10 turns of the transcript as it stood immediately
\* before the commit, which do not contain the new turn
C29_BoundedHistory ==
    [][UserTurnAppended
          => \E c \in BagToSet(calls') :
                /\ c.kind = "send"
                /\ CopiesIn(c, calls') > CopiesIn(c, calls)
                /\ c.hist = LastTurns(chatHistory)]_vars

\* the silent utterances of unlockAudio in bag b
UnlockCount(b) ==
    BagCardinality([u \in {v \in BagToSet(b) : ~v.h} |-> b[u]])

\* C30: the step that starts a session queues the silent utterance of the
\* audio unlock exactly once, and no other step queues one
C30_UnlockOnStart ==
    [][IF ~sessionActive /\ sessionActive'
       THEN UnlockCount(utts') = UnlockCount(utts) + 1
       ELSE UnlockCount(utts') <= UnlockCount(utts)]_vars

----------------------------------------------------------------------------
(* C31: the debounced auto-send.  While a timer armed by the auto-send     *)
(* effect is pending, the component is mounted, the session is active with *)
(* non-empty text, the controller is not listening, speaking or awaiting a *)
(* reply, and the dependencies of the effect are those of the render that  *)
(* armed it; a step that changes a dependency cancels or replaces the      *)
(* pending timer; and the callback of the timer runs handleSend only in    *)
(* such a state.                                                           *)
C31_DebouncedGuard ==
    /\ [](effectTimer # <<>> =>
            /\ mounted
            /\ sessionActive /\ Trim(inputText) # ""
            /\ ~isListening /\ ~isSpeaking /\ ~isProcessing
            /\ effectTimer[1] = <<isListening, inputText, sessionActive,
                                  isProcessing, isSpeaking>>)
    /\ [][(/\ effectTimer # <<>>
           /\ <<isListening, inputText, sessionActive, isProcessing, isSpeaking>>'
                # <<isListening, inputText, sessionActive, isProcessing, isSpeaking>>)
          => effectTimer' # effectTimer]_vars
    /\ [][(effectTimer # <<>> /\ AutoSendTimer)
          => (/\ sessionActive /\ Trim(inputText) # ""
              /\ ~isListening /\ ~isSpeaking /\ ~isProcessing)]_vars

\* the timer is pending after a capture has ended with its result as the text
C31_Witness ==
    /\ effectTimer # <<>>
    /\ \E r \in BagToSet(rec) : r.src /\ ~Live(r)
    /\ inputText = "hi"

----------------------------------------------------------------------------
(* C32: turn alternation.  No two consecutive turns of the transcript have *)
(* the same speaker, and a transcript that is not empty begins with a turn *)
(* of the tutor.                                                           *)
C32_TurnAlternation ==
    /\ \A i \in 1..(Len(chatHistory) - 1) :
            chatHistory[i].role # chatHistory[i + 1].role
    /\ chatHistory # <<>> => chatHistory[1].role = "model"

----------------------------------------------------------------------------
(* The store and the screens other than ChatScreen.  ChatScreen is not     *)
(* mounted: none of its objects exists.                                    *)
ScreenUnmounted ==
    /\ variant = "debounce"
    /\ callCap = MaxCalls /\ turnCap = MaxTurns
    /\ mounted = FALSE
    /\ inputText = ""
    /\ sessionActive = FALSE
    /\ isProcessing = FALSE
    /\ isListening = FALSE
    /\ isSpeaking = FALSE
    /\ rec = EmptyBag
    /\ utts = EmptyBag
    /\ settleTimers = 0
    /\ calls = EmptyBag
    /\ wakeLockRef = "null"
    /\ wlPending = 0
    /\ visible = TRUE
    /\ userIdle = FALSE
    /\ effectHistory = <<>>
    /\ effectTimer = <<>>

\* the words a reply of the vocabulary generator can hold
VocabItems == {"a", "b", "c"}
Statuses == {"new", "reviewing", "mastered"}

\* the sequences over S of length lo..hi
SeqsOf(S, lo, hi) == UNION {[1..n -> S] : n \in lo..hi}

\* the vocabulary screen opens on a generated batch of distinct words, each
\* in the status earlier reviews have left it in
InitVocab ==
    /\ ScreenUnmounted
    /\ chatHistory = <<>> /\ turnIds = <<>>
    /\ now = 0
    /\ user = <<[streak |-> 1, lastLogin |-> 0, lastLoginDate |-> 0]>>
    /\ currentScreen = "vocabulary"
    /\ currentIndex = 0
    /\ \E items \in SeqsOf(VocabItems, 0, MaxWords) :
        \E st \in [1..Len(items) -> Statuses] :
            /\ \A i, j \in 1..Len(items) : items[i] = items[j] => i = j
            /\ vocabulary = [i \in 1..Len(items) |->
                    [generateDailyVocab([now |-> 0], items)[i] EXCEPT !.status = st[i]]]

\* the card is displayed: the screen has rendered practiceWords[currentIndex]
CardDisplayed ==
    /\ currentScreen = "vocabulary"
    /\ currentIndex < Len(practiceWords(vocabulary))

\* the Review and Master buttons of the card
HandleNext(status) ==
    /\ CardDisplayed
    /\ DoStore(handleNext(Store, status))

HandleNextClamp(status) ==
    /\ CardDisplayed
    /\ DoStore(handleNextClamp(Store, status))

\* the navigation bar; the state of the screen is discarded
LeaveVocabulary ==
    /\ currentScreen = "vocabulary"
    /\ DoStore([setScreen(Store, "dashboard") EXCEPT !.currentIndex = 0])

\* the vocabulary card of the dashboard: the screen mounts with useState(0)
OpenVocabulary ==
    /\ currentScreen = "dashboard"
    /\ DoStore([setScreen(Store, "vocabulary") EXCEPT !.currentIndex = 0])

NextVocab ==
    \/ \E status \in {"mastered", "reviewing"} : HandleNext(status)
    \/ LeaveVocabulary
    \/ OpenVocabulary

SpecVocab == InitVocab /\ [][NextVocab]_vars

NextVocabClamp ==
    \/ \E status \in {"mastered", "reviewing"} : HandleNextClamp(status)
    \/ LeaveVocabulary
    \/ OpenVocabulary

SpecVocabClamp == InitVocab /\ [][NextVocabClamp]_vars

(* C33: the flash-card index stays in bounds.  On the vocabulary screen,   *)
(* whenever a word that is not mastered remains, currentIndex is less than *)
(* the number of such words.                                               *)
C33_IndexInBounds ==
    (currentScreen = "vocabulary" /\ Len(practiceWords(vocabulary)) > 0)
        => currentIndex < Len(practiceWords(vocabulary))

----------------------------------------------------------------------------
(* The dashboard fills the vocabulary: a reply of the generator that holds *)
(* at least one item is made into entries and handed to addVocab.          *)
InitStore ==
    /\ ScreenUnmounted
    /\ chatHistory = <<>> /\ turnIds = <<>>
    /\ now = 0
    /\ user = <<[streak |-> 1, lastLogin |-> 0, lastLoginDate |-> 0]>>
    /\ currentScreen = "dashboard"
    /\ currentIndex = 0
    /\ vocabulary = <<>>

AddVocab(items) ==
    /\ currentScreen = "dashboard"
    /\ DoStore(addVocab(Store, generateDailyVocab(Store, items)))

NextStore ==
    \/ \E items \in SeqsOf(VocabItems, 1, MaxBatch) : AddVocab(items)
    \/ Tick

SpecStore == InitStore /\ [][NextStore]_vars

(* C34: addVocab prevents duplicates.  No two entries of the vocabulary    *)
(* have the same word, whatever the batches added to an empty vocabulary   *)
(* hold, and a step leaves the entries of the vocabulary as they are and   *)
(* in their places.                                                        *)
C34_NoDuplicateWords ==
    /\ [](\A i, j \in 1..Len(vocabulary) :
            vocabulary[i].word = vocabulary[j].word => i = j)
    /\ [][/\ Len(vocabulary') >= Len(vocabulary)
          /\ \A i \in 1..Len(vocabulary) : vocabulary'[i] = vocabulary[i]]_vars

----------------------------------------------------------------------------
(* The login session.  The store is persisted: the application starts on   *)
(* the state the last visit has left, and App calls checkSession once at   *)
(* each start.  The user has logged in at instant 0 and may have left a    *)
(* practice session with its greeting in the transcript.                   *)
InitSession ==
    /\ ScreenUnmounted
    /\ now = 0
    /\ user = <<[streak |-> 1, lastLogin |-> 0, lastLoginDate |-> 0]>>
    /\ currentScreen = "dashboard"
    /\ currentIndex = 0
    /\ vocabulary = <<>>
    /\ \E h \in {<<>>, <<TutorTurn("greeting", FALSE)>>} :
            /\ chatHistory = h
            /\ turnIds = [i \in 1..Len(h) |-> 0]

\* time passes
ClockAdvance ==
    /\ now < MaxClock
    /\ DoStore([Store EXCEPT !.now = @ + 1])

\* the effect of App at the start of the application
AppStart ==
    /\ currentScreen \in {"login", "dashboard"}
    /\ DoStore(checkSession(Store))

\* the form of the login screen
Login ==
    /\ currentScreen = "login"
    /\ DoStore(login(Store))

NextSession ==
    \/ ClockAdvance
    \/ AppStart
    \/ Login

SpecSession == InitSession /\ [][NextSession]_vars

(* C35: the login streak.  checkSession on a logged-in user whose last     *)
(* login is at most 7 days old leaves the streak unchanged when the date   *)
(* of the last login is today, increases it by exactly 1 when that date is *)
(* the day before today, and sets it to 1 when it is further back; when    *)
(* the last login is more than 7 days old the user is logged out instead:  *)
(* user null, screen 'login', chat history empty.                          *)
C35_LoginStreak ==
    [][(user # <<>> /\ AppStart) =>
        LET u == user[1]
            today == now \div Day
        IN  IF now - u.lastLogin > 7 * Day
            THEN /\ user' = <<>>
                 /\ currentScreen' = "login"
                 /\ chatHistory' = <<>>
            ELSE /\ user' # <<>>
                 /\ u.lastLoginDate = today => user'[1].streak = u.streak
                 /\ u.lastLoginDate = today - 1 => user'[1].streak = u.streak + 1
                 /\ u.lastLoginDate < today - 1 => user'[1].streak = 1]_vars

\* the streak has grown on two consecutive days
C35_Witness ==
    /\ user # <<>>
    /\ user[1].streak = 3
    /\ user[1].lastLogin = now

====
